---- MODULE Spec2Model ----
(***************************************************************************)
(* Polaris task backend: the Task table, the pydantic request schemas and  *)
(* the five handlers of polaris/api/tasks.py, as a state machine.          *)
(*                                                                         *)
(* One action per HTTP handler.  A handler runs in one step: FastAPI       *)
(* validates the request (422) before it calls the handler, the handler    *)
(* works in one session whose changes reach the table at db.commit() or    *)
(* not at all, and the response model is applied to what it returns.       *)
(* For requests that run at the same time, get_db and update_task are      *)
(* also given step by step, one action per access to what threads share.   *)
(*                                                                         *)
(* The store is the one config.py names, PostgreSQL: String(255) is        *)
(* VARCHAR(255) and Enum(TaskState) is a native enum type whose labels are *)
(* the member NAMES (INBOX, ...), not the values ("inbox", ...).           *)
(***************************************************************************)
EXTENDS Integers, Sequences, FiniteSets, TLC

VARIABLES tasks, now, store_up, request, response,
          _engine, _SessionLocal, made, sessions, workers

\* The process: the globals of database.py, the engines and session
\* factories made so far, and the requests served step by step, each with
\* the session get_db made for it.
process == <<_engine, _SessionLocal, made, sessions, workers>>

vars == <<tasks, now, store_up, request, response, process>>

(***************************************************************************)
(* Bounds of the model.                                                    *)
(***************************************************************************)
MaxTasks == 2
MaxClock == 1

(***************************************************************************)
(* Python values.  An Optional[T] is None or Some(v).  A field of a        *)
(* request body is Unset (the key is absent) or Given(x), x an Optional:   *)
(* pydantic's model_fields_set tells the two apart.                        *)
(***************************************************************************)
None == <<>>
Some(v) == <<v>>
Unset == <<>>
Given(x) == <<x>>

(***************************************************************************)
(* models/task.py                                                          *)
(***************************************************************************)
TaskState ==
  [INBOX |-> "inbox", TRIAGED |-> "triaged", ACTIVE |-> "active",
   BLOCKED |-> "blocked", DONE |-> "done", ARCHIVED |-> "archived"]

\* [s.value for s in TaskState]
TaskStateValues == {TaskState[n] : n \in DOMAIN TaskState}

\* title = Column(String(255), nullable=False)
TitleMaxLen == 255
\* cognitive_load = Column(Integer, default=5); TaskBase.cognitive_load = 5
DefaultCognitiveLoad == 5

\* Enum(TaskState) on the way in: a member is bound as its name, a str that
\* is a name as itself, and any other str as it is (validate_strings=False).
EnumBindStr(s) == s

\* Enum(TaskState) on the way out: the member a stored label names, as the
\* member's value (what TaskResponse.state: str makes of it).
StateValue(label) == IF label = None THEN None ELSE Some(TaskState[label[1]])

\* What the table refuses: a row the INSERT or UPDATE raises on.  A title
\* longer than VARCHAR(255), or a state that is no label of the enum type.
StoreAccepts(row) ==
  /\ Len(row.title) <= TitleMaxLen
  /\ row.state # None => row.state[1] \in DOMAIN TaskState

(***************************************************************************)
(* models/base.py                                                          *)
(***************************************************************************)
\* The identifiers uuid.uuid4 draws from.
UUIDs == 1 .. (MaxTasks + 1)

\* A slip: default=uuid.uuid4(), one identifier drawn at import for all rows.
uuid4_CalledOnce == {1}

\* id = Column(..., default=uuid.uuid4): an identifier no row has.
uuid4 == UUIDs \ {t.id : t \in tasks}

\* Task(**attrs), db.add, db.commit, db.refresh: the row the INSERT makes.
\* An attribute that is None is left out of the INSERT, so the column
\* default applies (state INBOX, cognitive_load 5); created_at and
\* updated_at are the server's now().
NewTask(id, attrs) ==
  [id |-> id,
   title |-> attrs.title,
   description |-> attrs.description,
   state |-> IF attrs.state = None THEN Some("INBOX") ELSE attrs.state,
   cognitive_load |-> IF attrs.cognitive_load = None
                        THEN Some(DefaultCognitiveLoad)
                        ELSE attrs.cognitive_load,
   estimated_minutes |-> attrs.estimated_minutes,
   created_at |-> now,
   updated_at |-> now]

(***************************************************************************)
(* schemas/task.py                                                         *)
(***************************************************************************)
MinCognitiveLoad == 1
MaxCognitiveLoad == 10

\* TaskBase.validate_cognitive_load: TRUE when the value passes.
TaskBase_validate_cognitive_load(v) ==
  ~(v # None /\ (v[1] < MinCognitiveLoad \/ v[1] > MaxCognitiveLoad))

\* A slip in the upper bound: 11 passes.
TaskUpdate_validate_cognitive_load_OffByOne(v) ==
  ~(v # None /\ (v[1] < MinCognitiveLoad \/ v[1] > MaxCognitiveLoad + 1))

\* TaskUpdate.validate_cognitive_load: TRUE when the value passes.
TaskUpdate_validate_cognitive_load(v) ==
  ~(v # None /\ (v[1] < MinCognitiveLoad \/ v[1] > MaxCognitiveLoad))

\* TaskUpdate.validate_state: `if v and v not in [...]`: None and the empty
\* string are falsy and pass.
TaskUpdate_validate_state(v) ==
  ~((v # None /\ v[1] # "") /\ v[1] \notin TaskStateValues)

\* TaskCreate(**body): title is a required str; a validator runs on a field
\* the body gives; a key the schema does not declare (state) is ignored.
TaskCreate_valid(body) ==
  /\ body.title # Unset
  /\ body.title[1] # None
  /\ body.cognitive_load # Unset =>
       TaskBase_validate_cognitive_load(body.cognitive_load[1])

\* A slip: the create schema declares state too, and hands it to Task().
TaskCreate_model_dump_WithState(body) ==
  [title |-> body.title[1][1],
   description |-> IF body.description = Unset THEN None
                   ELSE body.description[1],
   state |-> IF body.state = Unset \/ body.state[1] = None THEN None
             ELSE Some(CHOOSE n \in DOMAIN TaskState :
                         TaskState[n] = body.state[1][1]),
   cognitive_load |-> IF body.cognitive_load = Unset
                        THEN Some(DefaultCognitiveLoad)
                        ELSE body.cognitive_load[1],
   estimated_minutes |-> IF body.estimated_minutes = Unset THEN None
                         ELSE body.estimated_minutes[1]]

\* TaskCreate.model_dump(): the four declared fields, defaults filled in.
TaskCreate_model_dump(body) ==
  [title |-> body.title[1][1],
   description |-> IF body.description = Unset THEN None
                   ELSE body.description[1],
   state |-> None,
   cognitive_load |-> IF body.cognitive_load = Unset
                        THEN Some(DefaultCognitiveLoad)
                        ELSE body.cognitive_load[1],
   estimated_minutes |-> IF body.estimated_minutes = Unset THEN None
                         ELSE body.estimated_minutes[1]]

\* TaskUpdate(**body): every field optional, two validators.
TaskUpdate_valid(body) ==
  /\ body.state # Unset => TaskUpdate_validate_state(body.state[1])
  /\ body.cognitive_load # Unset =>
       TaskUpdate_validate_cognitive_load(body.cognitive_load[1])

UpdateFields ==
  {"title", "description", "state", "cognitive_load", "estimated_minutes"}

\* TaskUpdate.model_dump(exclude_unset=True): the keys the body gave.
TaskUpdate_model_dump(body) == {f \in UpdateFields : body[f] # Unset}

\* TaskResponse.model_validate(task): state: str refuses None; every other
\* field of a stored row passes.
TaskResponse_valid(row) == row.state # None

(***************************************************************************)
(* Requests and responses.                                                 *)
(***************************************************************************)
NoBody ==
  [title |-> Unset, description |-> Unset, state |-> Unset,
   cognitive_load |-> Unset, estimated_minutes |-> Unset]

Request(op, id, body, text, skip, limit) ==
  [op |-> op, task_id |-> id, body |-> body, text |-> text,
   skip |-> skip, limit |-> limit]

\* status is the HTTP status; raised names the exception behind a failure
\* ("" when there is none); body holds the rows sent back.
Response(status, raised, rows) ==
  [status |-> status, raised |-> raised, body |-> rows]

\* response_model=TaskResponse applied to the task a handler returns.
Respond(row) ==
  IF TaskResponse_valid(row) THEN Response(200, "", <<row>>)
  ELSE Response(500, "ResponseValidationError", <<>>)

\* get_db around a handler served with no other request in between: the
\* session factory is made if _SessionLocal names none (get_session_local);
\* the session is made, yielded and closed within the step.
get_db ==
  /\ _SessionLocal' = IF _SessionLocal = None THEN Some(made.factories + 1)
                      ELSE _SessionLocal
  /\ made' = IF _SessionLocal = None
               THEN [made EXCEPT !.factories = @ + 1]
               ELSE made
  /\ UNCHANGED <<_engine, sessions, workers>>

(***************************************************************************)
(* api/tasks.py                                                            *)
(***************************************************************************)
\* POST /quick-capture?text=...
quick_capture(text) ==
  /\ Cardinality(tasks) < MaxTasks
  /\ request' = Request("quick_capture", 0, NoBody, text, 0, 0)
  /\ IF ~store_up
       THEN /\ tasks' = tasks
            /\ response' = Response(500, "OperationalError", <<>>)
       ELSE \E id \in uuid4 :
              LET task == NewTask(id, [title |-> text, description |-> None,
                                       state |-> Some("INBOX"),
                                       cognitive_load |-> None,
                                       estimated_minutes |-> None])
              IN IF StoreAccepts(task)
                   THEN /\ tasks' = tasks \cup {task}
                        /\ response' = Respond(task)
                   ELSE /\ tasks' = tasks
                        /\ response' = Response(500, "DataError", <<>>)
  /\ get_db
  /\ UNCHANGED <<now, store_up>>

\* POST "" with a JSON body
create_task(body) ==
  /\ Cardinality(tasks) < MaxTasks
  /\ request' = Request("create_task", 0, body, "", 0, 0)
  /\ IF ~TaskCreate_valid(body)
       THEN /\ tasks' = tasks
            /\ response' = Response(422, "RequestValidationError", <<>>)
       ELSE IF ~store_up
       THEN /\ tasks' = tasks
            /\ response' = Response(500, "OperationalError", <<>>)
       ELSE \E id \in uuid4 :
              LET db_task == NewTask(id, TaskCreate_model_dump(body))
              IN IF StoreAccepts(db_task)
                   THEN /\ tasks' = tasks \cup {db_task}
                        /\ response' = Respond(db_task)
                   ELSE /\ tasks' = tasks
                        /\ response' = Response(500, "DataError", <<>>)
  /\ get_db
  /\ UNCHANGED <<now, store_up>>

\* A slip: the filter left out, so that first() is the table's first row.
QueryFirst_NoFilter(task_id) ==
  IF tasks = {} THEN {}
  ELSE {CHOOSE t \in tasks : \A u \in tasks : t.id <= u.id}

\* db.query(Task).filter(Task.id == task_id).first()
QueryFirst(task_id) == {t \in tasks : t.id = task_id}

\* GET /{task_id}
get_task(task_id) ==
  /\ request' = Request("get_task", task_id, NoBody, "", 0, 0)
  /\ response' =
       IF ~store_up THEN Response(500, "OperationalError", <<>>)
       ELSE IF QueryFirst(task_id) = {} THEN Response(404, "Task not found", <<>>)
       ELSE Respond(CHOOSE t \in QueryFirst(task_id) : TRUE)
  /\ get_db
  /\ UNCHANGED <<tasks, now, store_up>>

\* A slip: model_dump() without exclude_unset, so that every key the body
\* leaves out is assigned its schema default, None.
SetAttrs_WithoutExcludeUnset(task, body) ==
  [task EXCEPT
     !.title = IF body.title = Unset \/ body.title[1] = None THEN @
               ELSE body.title[1][1],
     !.description = IF body.description = Unset THEN None
                     ELSE body.description[1],
     !.state = IF body.state = Unset THEN @
               ELSE IF body.state[1] = None THEN None
               ELSE Some(body.state[1][1]),
     !.cognitive_load = IF body.cognitive_load = Unset THEN None
                        ELSE body.cognitive_load[1],
     !.estimated_minutes = IF body.estimated_minutes = Unset THEN None
                           ELSE body.estimated_minutes[1]]

\* for field, value in update_data.items(): setattr(task, field, value).
\* A str assigned to state is bound as the label it spells.
SetAttrs(task, body) ==
  [task EXCEPT
     !.title = IF body.title = Unset \/ body.title[1] = None THEN @
               ELSE body.title[1][1],
     !.description = IF body.description = Unset THEN @
                     ELSE body.description[1],
     !.state = IF body.state = Unset THEN @
               ELSE IF body.state[1] = None THEN None
               ELSE Some(EnumBindStr(body.state[1][1])),
     !.cognitive_load = IF body.cognitive_load = Unset THEN @
                        ELSE body.cognitive_load[1],
     !.estimated_minutes = IF body.estimated_minutes = Unset THEN @
                           ELSE body.estimated_minutes[1]]

\* The session's flush: an UPDATE is emitted only when an attribute has a
\* net change.  A str never equals the TaskState member the row was loaded
\* with, so a str assigned to state always counts as a change.
Dirty(task, body) ==
  \/ SetAttrs(task, body) # task
  \/ body.title = Given(None)
  \/ body.state # Unset /\ body.state[1] # None

\* The row the UPDATE writes: onupdate=func.now() refreshes updated_at.
UpdatedRow(task, body) == [SetAttrs(task, body) EXCEPT !.updated_at = now]

\* db.commit() of the UPDATE raises: title set to NULL (nullable=False), or
\* a value the column refuses.
UpdateRefused(task, body) ==
  \/ body.title = Given(None)
  \/ ~StoreAccepts(UpdatedRow(task, body))

\* PUT /{task_id} with a JSON body
update_task(task_id, body) ==
  /\ request' = Request("update_task", task_id, body, "", 0, 0)
  /\ IF ~TaskUpdate_valid(body)
       THEN /\ tasks' = tasks
            /\ response' = Response(422, "RequestValidationError", <<>>)
       ELSE IF ~store_up
       THEN /\ tasks' = tasks
            /\ response' = Response(500, "OperationalError", <<>>)
       ELSE IF QueryFirst(task_id) = {}
       THEN /\ tasks' = tasks
            /\ response' = Response(404, "Task not found", <<>>)
       ELSE LET task == CHOOSE t \in QueryFirst(task_id) : TRUE
            IN IF ~Dirty(task, body)
                 THEN /\ tasks' = tasks
                      /\ response' = Respond(task)
                 ELSE IF UpdateRefused(task, body)
                 THEN /\ tasks' = tasks
                      /\ response' = Response(500, "DataError", <<>>)
                 ELSE /\ tasks' = (tasks \ {task}) \cup {UpdatedRow(task, body)}
                      /\ response' = Respond(UpdatedRow(task, body))
  /\ get_db
  /\ UNCHANGED <<now, store_up>>

\* limit: int = Query(default=100, le=500)
LimitCap == 500

\* db.query(Task): a Query with no OFFSET, LIMIT or ORDER BY yet.
Query_new == [offset |-> None, limit |-> None, ordered |-> FALSE,
              raised |-> FALSE]

Query_offset(q, skip) == [q EXCEPT !.offset = Some(skip)]

Query_limit(q, limit) == [q EXCEPT !.limit = Some(limit)]

\* Query.order_by asserts that no LIMIT or OFFSET has been applied yet and
\* raises InvalidRequestError otherwise.
Query_order_by(q) ==
  IF q.limit # None \/ q.offset # None
    THEN [q EXCEPT !.raised = TRUE]
    ELSE [q EXCEPT !.ordered = TRUE]

\* The orders ORDER BY created_at DESC may return the table in.
NewestFirst ==
  {s \in [1 .. Cardinality(tasks) -> tasks] :
     /\ \A i, j \in DOMAIN s : i # j => s[i] # s[j]
     /\ \A i, j \in DOMAIN s : i < j => s[i].created_at >= s[j].created_at}

\* Rows skip+1 .. skip+limit of a sequence.
Page(s, skip, limit) ==
  SubSeq(s, skip + 1, IF skip + limit < Len(s) THEN skip + limit ELSE Len(s))

\* Query.all(): the rows of SELECT ... ORDER BY ... LIMIT ... OFFSET ...
Query_all(q) ==
  IF q.ordered
    THEN {Page(s, IF q.offset = None THEN 0 ELSE q.offset[1],
                  IF q.limit = None THEN Cardinality(tasks) ELSE q.limit[1]) :
            s \in NewestFirst}
    ELSE {Page(s, IF q.offset = None THEN 0 ELSE q.offset[1],
                  IF q.limit = None THEN Cardinality(tasks) ELSE q.limit[1]) :
            s \in {r \in [1 .. Cardinality(tasks) -> tasks] :
                     \A i, j \in DOMAIN r : i # j => r[i] # r[j]}}

\* GET "" ?skip=&limit=
list_tasks(skip, limit) ==
  /\ request' = Request("list_tasks", 0, NoBody, "", skip, limit)
  /\ IF limit > LimitCap
       THEN response' = Response(422, "RequestValidationError", <<>>)
       ELSE LET q == Query_order_by(Query_limit(Query_offset(Query_new, skip),
                                                limit))
            IN IF q.raised
                 THEN response' = Response(500, "InvalidRequestError", <<>>)
                 ELSE IF ~store_up
                 THEN response' = Response(500, "OperationalError", <<>>)
                 ELSE \E rows \in Query_all(q) : response' = Response(200, "", rows)
  /\ get_db
  /\ UNCHANGED <<tasks, now, store_up>>

(***************************************************************************)
(* The world around the handlers: the store's clock advances, and the      *)
(* store becomes unreachable and reachable again.                          *)
(***************************************************************************)
Tick ==
  /\ now < MaxClock
  /\ now' = now + 1
  /\ UNCHANGED <<tasks, store_up, request, response, process>>

StoreDown ==
  /\ store_up
  /\ store_up' = FALSE
  /\ UNCHANGED <<tasks, now, request, response, process>>

StoreUp ==
  /\ ~store_up
  /\ store_up' = TRUE
  /\ UNCHANGED <<tasks, now, request, response, process>>

(***************************************************************************)
(* database.py, and a request served step by step.                         *)
(*                                                                         *)
(* FastAPI runs get_db and the handlers (plain def functions) in the       *)
(* threads of a pool, one request per thread, so the steps of several      *)
(* requests interleave.  A step is one access to what the threads share:   *)
(* the two globals of database.py and the table.  The handler actions      *)
(* above are a request served with no other request in between; they leave *)
(* the process as it is.                                                   *)
(***************************************************************************)
\* The requests served step by step in one run.
MaxRequests == 2

Requests == 1 .. MaxRequests

\* A thread with no request.  task is the object the handler's session has
\* loaded.
Idle ==
  [pc |-> "idle", op |-> "none", task_id |-> 0, body |-> NoBody, text |-> "",
   task |-> None, status |-> 0, raised |-> ""]

\* The thread goes on to pc.
Goto(r, pc) == [workers EXCEPT ![r].pc = pc]

\* The request of thread r ends with a status: what is raised (or returned,
\* raised = "") leaves the handler and reaches get_db.
Leave(r, status, raised) ==
  [workers EXCEPT ![r].pc = "finally", ![r].status = status,
                  ![r].raised = raised]

\* get_engine(): the engine _engine names, made first when it names none.
get_engine == IF _engine = None THEN Some(made.engines + 1) ELSE _engine

\* A request arrives and a thread takes it; FastAPI enters get_db first.
\* Threads are numbered in the order the requests arrive.
receive(r, req) ==
  /\ workers[r].pc = "idle"
  /\ \A q \in Requests : q < r => workers[q].pc # "idle"
  /\ workers' = [workers EXCEPT ![r] =
                   [Idle EXCEPT !.pc = "get_session_local", !.op = req.op,
                                !.task_id = req.task_id, !.body = req.body,
                                !.text = req.text]]
  /\ UNCHANGED <<tasks, now, store_up, request, response,
                 _engine, _SessionLocal, made, sessions>>

\* get_session_local: if _SessionLocal is None
get_session_local_test(r) ==
  /\ workers[r].pc = "get_session_local"
  /\ workers' = Goto(r, IF _SessionLocal = None THEN "sessionmaker"
                        ELSE "return")
  /\ UNCHANGED <<tasks, now, store_up, request, response,
                 _engine, _SessionLocal, made, sessions>>

\* get_session_local: _SessionLocal = sessionmaker(..., bind=get_engine())
get_session_local_make(r) ==
  /\ workers[r].pc = "sessionmaker"
  /\ _engine' = get_engine
  /\ made' = [engines |-> IF _engine = None THEN made.engines + 1
                          ELSE made.engines,
              factories |-> made.factories + 1]
  /\ _SessionLocal' = Some(made.factories + 1)
  /\ workers' = Goto(r, "return")
  /\ UNCHANGED <<tasks, now, store_up, request, response, sessions>>

\* get_session_local: return _SessionLocal; get_db: db = ...(), yield db.
\* The factory the global names now makes a new Session, the db of request
\* r: sessions[r] tells which factory made it and how often it was closed.
get_db_enter(r) ==
  /\ workers[r].pc = "return"
  /\ sessions' = [sessions EXCEPT ![r] = Some([factory |-> _SessionLocal[1],
                                               closes |-> 0])]
  /\ workers' = Goto(r, "handler")
  /\ UNCHANGED <<tasks, now, store_up, request, response,
                 _engine, _SessionLocal, made>>

\* The row of the table that a session's object stands for.
RowOf(task) == CHOOSE t \in tasks : t.id = task.id

\* update_task: the body is validated, then
\* task = db.query(Task).filter(Task.id == task_id).first(), the 404, and
\* the setattr loop on the loaded object.
update_task_query(r) ==
  /\ workers[r].pc = "handler"
  /\ workers[r].op = "update_task"
  /\ workers' =
       IF ~TaskUpdate_valid(workers[r].body)
         THEN Leave(r, 422, "RequestValidationError")
       ELSE IF ~store_up
         THEN Leave(r, 500, "OperationalError")
       ELSE IF QueryFirst(workers[r].task_id) = {}
         THEN Leave(r, 404, "Task not found")
       ELSE [workers EXCEPT
               ![r].pc = "commit",
               ![r].task = Some(CHOOSE t \in QueryFirst(workers[r].task_id) :
                                  TRUE)]
  /\ UNCHANGED <<tasks, now, store_up, request, response,
                 _engine, _SessionLocal, made, sessions>>

\* The UPDATE a flush emits for an object loaded as task and assigned body,
\* applied to the row as it is now: SET names the attributes whose value
\* differs from the loaded one, and updated_at (onupdate=func.now()).
Flush(row, task, body) ==
  LET new == SetAttrs(task, body)
  IN [row EXCEPT
        !.title = IF new.title # task.title THEN new.title ELSE @,
        !.description = IF new.description # task.description
                          THEN new.description ELSE @,
        !.state = IF new.state # task.state THEN new.state ELSE @,
        !.cognitive_load = IF new.cognitive_load # task.cognitive_load
                             THEN new.cognitive_load ELSE @,
        !.estimated_minutes = IF new.estimated_minutes # task.estimated_minutes
                                THEN new.estimated_minutes ELSE @,
        !.updated_at = now]

\* update_task: db.commit().  WHERE names the id alone: no version column.
update_task_commit(r) ==
  /\ workers[r].pc = "commit"
  /\ LET task == workers[r].task[1]
         body == workers[r].body
     IN IF ~store_up
          THEN /\ tasks' = tasks
               /\ workers' = Leave(r, 500, "OperationalError")
          ELSE IF ~Dirty(task, body)
          THEN /\ tasks' = tasks
               /\ workers' = Goto(r, "refresh")
          ELSE IF body.title = Given(None)
                    \/ ~StoreAccepts(Flush(RowOf(task), task, body))
          THEN /\ tasks' = tasks
               /\ workers' = Leave(r, 500, "DataError")
          ELSE /\ tasks' = (tasks \ {RowOf(task)})
                             \cup {Flush(RowOf(task), task, body)}
               /\ workers' = Goto(r, "refresh")
  /\ UNCHANGED <<now, store_up, request, response,
                 _engine, _SessionLocal, made, sessions>>

\* update_task: db.refresh(task); return task.  The row is read again and
\* the response model applied to it.
refresh(r) ==
  /\ workers[r].pc = "refresh"
  /\ LET resp == IF ~store_up THEN Response(500, "OperationalError", <<>>)
                 ELSE Respond(RowOf(workers[r].task[1]))
     IN workers' = Leave(r, resp.status, resp.raised)
  /\ UNCHANGED <<tasks, now, store_up, request, response,
                 _engine, _SessionLocal, made, sessions>>

\* A slip: db.close() after the yield with no try/finally around it, which
\* runs only when nothing is thrown into the generator.
FinallyRuns_OnReturnOnly(raised) == raised = ""

\* try: yield db / finally: db.close() -- the finally clause runs whether
\* the generator is resumed (raised = "") or has the request's exception
\* thrown into it.
FinallyRuns(raised) == raised = "" \/ raised # ""

\* get_db: finally: db.close(); the request is over.
get_db_exit(r) ==
  /\ workers[r].pc = "finally"
  /\ sessions' = IF FinallyRuns(workers[r].raised)
                   THEN [sessions EXCEPT ![r] =
                           Some([@[1] EXCEPT !.closes = @ + 1])]
                   ELSE sessions
  /\ workers' = [workers EXCEPT ![r].pc = "done", ![r].task = None]
  /\ UNCHANGED <<tasks, now, store_up, request, response,
                 _engine, _SessionLocal, made>>

(***************************************************************************)
(* The requests the clients send.  Each specification below runs the same  *)
(* handlers over its own request bodies, so that the cases of the claims   *)
(* it serves are all reached.                                              *)
(***************************************************************************)
X1 == "x"
X2 == X1 \o X1
X4 == X2 \o X2
X8 == X4 \o X4
X16 == X8 \o X8
X32 == X16 \o X16
X64 == X32 \o X32
X128 == X64 \o X64
\* The longest title the column holds, and one character more.
Title255 == X128 \o X64 \o X32 \o X16 \o X8 \o X4 \o X2 \o X1
Title256 == Title255 \o X1

Body(title, description, state, cognitive_load, estimated_minutes) ==
  [title |-> title, description |-> description, state |-> state,
   cognitive_load |-> cognitive_load, estimated_minutes |-> estimated_minutes]

TitleA == Given(Some("A"))
TitleC == Given(Some("C"))

\* The identifiers the requests name: each may or may not be a stored task's.
TaskIds == {1, 2}

\* The table is empty and the clock at 0.  The application has started:
\* lifespan has called get_engine() (main.py), so _engine names the engine
\* before the first request is served; no request has asked for a session.
Init ==
  /\ tasks = {}
  /\ now = 0
  /\ store_up = TRUE
  /\ request = Request("none", 0, NoBody, "", 0, 0)
  /\ response = Response(0, "", <<>>)
  /\ _engine = Some(1)
  /\ _SessionLocal = None
  /\ made = [engines |-> 1, factories |-> 0]
  /\ sessions = [r \in Requests |-> None]
  /\ workers = [r \in Requests |-> Idle]

\* Spec: state changes.  An update carries any kind of state value, alone or
\* beside a title or a cognitive_load.
StatesIn ==
  {Given(None), Given(Some("")), Given(Some("bogus")), Given(Some("ACTIVE"))}
    \cup {Given(Some(v)) : v \in TaskStateValues}

StateUpdateBodies ==
  {Body(Unset, Unset, st, Unset, Unset) : st \in StatesIn}
    \cup {Body(TitleC, Unset, st, Unset, Unset) :
            st \in {Unset, Given(None), Given(Some("")), Given(Some("bogus")),
                    Given(Some("done"))}}
    \cup {Body(t, Unset, Unset, Given(Some(11)), Unset) : t \in {Unset, TitleC}}
    \cup {NoBody}

Next ==
  \/ \E text \in {"A"} : quick_capture(text)
  \/ \E body \in {Body(TitleA, Unset, Unset, Unset, Unset)} : create_task(body)
  \/ \E id \in TaskIds : get_task(id)
  \/ \E id \in TaskIds, body \in StateUpdateBodies : update_task(id, body)
  \/ StoreDown
  \/ StoreUp

Spec == Init /\ [][Next]_vars

\* SpecCreate: full creation and the cognitive_load range.
LoadsIn ==
  {Given(None), Given(Some(-1)), Given(Some(0)), Given(Some(1)),
   Given(Some(10)), Given(Some(11))}

CreateBodies ==
  {Body(t, Unset, Unset, Unset, Unset) :
     t \in {Unset, Given(None), Given(Some("")), TitleA}}
    \cup {Body(TitleA, Unset, Unset, c, Unset) : c \in LoadsIn}
    \cup {Body(TitleA, Unset, Unset, Unset, m) :
            m \in {Given(None), Given(Some(30))}}
    \cup {Body(TitleA, Unset, Given(Some("done")), c, Given(Some(30))) :
            c \in {Unset, Given(Some(2)), Given(Some(11))}}
    \cup {Body(Unset, Unset, Unset, Given(Some(2)), Unset)}

LoadUpdateBodies ==
  {Body(Unset, Unset, Unset, c, Unset) : c \in LoadsIn}
    \cup {Body(TitleC, Unset, Unset, c, Unset) :
            c \in {Given(Some(0)), Given(Some(11))}}

NextCreate ==
  \/ \E text \in {"A"} : quick_capture(text)
  \/ \E body \in CreateBodies : create_task(body)
  \/ \E id \in {1}, body \in LoadUpdateBodies : update_task(id, body)

SpecCreate == Init /\ [][NextCreate]_vars

\* SpecPatch: partial updates over all five fields.
PatchBodies ==
  {NoBody,
   Body(TitleC, Unset, Unset, Unset, Unset),
   Body(Given(Some(Title256)), Unset, Unset, Unset, Unset),
   Body(Unset, Given(Some("B")), Unset, Unset, Unset),
   Body(Unset, Given(None), Unset, Unset, Unset),
   Body(Unset, Unset, Given(None), Unset, Unset),
   Body(Unset, Unset, Given(Some("done")), Unset, Unset),
   Body(Unset, Unset, Unset, Given(Some(3)), Given(Some(30))),
   Body(Unset, Unset, Unset, Given(None), Unset),
   Body(TitleC, Given(Some("B")), Unset, Given(Some(3)), Given(Some(30))),
   Body(TitleC, Given(Some("B")), Given(None), Given(Some(3)),
        Given(Some(30)))}

NextPatch ==
  \/ \E text \in {"A"} : quick_capture(text)
  \/ \E id \in {1}, body \in PatchBodies : update_task(id, body)
  \/ Tick

SpecPatch == Init /\ [][NextPatch]_vars

\* SpecCapture: quick capture of every kind of text, and listing.
Texts == {"", "A", Title255, Title256}
Skips == {0, 1}
Limits == {0, 1, 2, LimitCap, LimitCap + 1}

NextCapture ==
  \/ \E text \in Texts : quick_capture(text)
  \/ \E id \in {1}, body \in {Body(TitleC, Unset, Unset, Unset, Unset)} :
       update_task(id, body)
  \/ \E skip \in Skips, limit \in Limits : list_tasks(skip, limit)
  \/ Tick
  \/ StoreDown
  \/ StoreUp

SpecCapture == Init /\ [][NextCapture]_vars

\* SpecSessions: updates served step by step, before and after the capture
\* of one task, while the store comes and goes, so that a request ends by
\* every way out of its handler.
SessionRequests ==
  {Request("update_task", id, body, "", 0, 0) :
     id \in {1},
     body \in {Body(TitleC, Unset, Unset, Unset, Unset),
               Body(Unset, Unset, Unset, Given(Some(11)), Unset)}}

NextSessions ==
  \/ \E text \in {"A"} : tasks = {} /\ quick_capture(text)
  \/ \E r \in Requests, req \in SessionRequests : receive(r, req)
  \/ \E r \in Requests : get_session_local_test(r)
  \/ \E r \in Requests : get_session_local_make(r)
  \/ \E r \in Requests : get_db_enter(r)
  \/ \E r \in Requests : update_task_query(r)
  \/ \E r \in Requests : update_task_commit(r)
  \/ \E r \in Requests : refresh(r)
  \/ \E r \in Requests : get_db_exit(r)
  \/ StoreDown
  \/ StoreUp

SpecSessions == Init /\ [][NextSessions]_vars

\* SpecThreads: updates of one task served step by step, after and before
\* its capture, with the store reachable.  The bodies give a new title, the
\* captured title again, and a new title beside a description.
ThreadRequests ==
  {Request("update_task", id, body, "", 0, 0) :
     id \in {1},
     body \in {Body(TitleC, Unset, Unset, Unset, Unset),
               Body(TitleA, Unset, Unset, Unset, Unset),
               Body(TitleC, Given(Some("B")), Unset, Unset, Unset)}}

NextThreads ==
  \/ \E text \in {"A"} : tasks = {} /\ quick_capture(text)
  \/ \E r \in Requests, req \in ThreadRequests : receive(r, req)
  \/ \E r \in Requests : get_session_local_test(r)
  \/ \E r \in Requests : get_session_local_make(r)
  \/ \E r \in Requests : get_db_enter(r)
  \/ \E r \in Requests : update_task_query(r)
  \/ \E r \in Requests : update_task_commit(r)
  \/ \E r \in Requests : refresh(r)
  \/ \E r \in Requests : get_db_exit(r)

SpecThreads == Init /\ [][NextThreads]_vars

(***************************************************************************)
(* Properties.                                                             *)
(***************************************************************************)
\* The task the last request named, before and after the step.
Named(rows, req) == {t \in rows : t.id = req.task_id}

\* The six state values, as the interface spells them.
SixStates == {"inbox", "triaged", "active", "blocked", "done", "archived"}

\* A step in which a handler ran and left a trace of it.
HandlerStep == request' # request \/ response' # response \/ tasks' # tasks

\* The store was reachable when the last request was served.
StoreWasUp == response.raised # "OperationalError"

\* C1: every stored task's state is one of the six values inbox, triaged,
\* active, blocked, done, archived; it is never another string and never
\* missing.
C1_StateAlwaysOneOfSix ==
  \A t \in tasks :
    /\ t.state # None
    /\ StateValue(t.state)[1] \in SixStates

\* C2: an update of an existing task that carries state = s succeeds and
\* leaves the task in state s when s is one of the six values, whatever the
\* current state; for any other string it fails validation and the task is
\* unchanged.
C2_UpdateToAnyOfSixSucceeds ==
  [][(/\ request'.op = "update_task"
      /\ response'.raised # "OperationalError"
      /\ Named(tasks, request') # {}
      /\ request'.body.state # Unset
      /\ request'.body.state[1] # None
      /\ request'.body.cognitive_load = Unset)
     => IF request'.body.state[1][1] \in SixStates
          THEN /\ response'.status = 200
               /\ \A t \in Named(tasks', request') :
                    StateValue(t.state) = request'.body.state[1]
          ELSE /\ response'.status = 422
               /\ tasks' = tasks]_vars

\* A field of an update body that the interface calls invalid: a state that
\* is not one of the six values, or a cognitive_load outside 1..10.
InvalidField(body) ==
  \/ /\ body.state # Unset
     /\ \/ body.state[1] = None
        \/ body.state[1][1] \notin SixStates
  \/ /\ body.cognitive_load # Unset
     /\ body.cognitive_load[1] # None
     /\ body.cognitive_load[1][1] \notin 1 .. 10

\* C5: an update is all-or-nothing: when any field of the body is invalid
\* the request fails and no field of the body, valid ones included, is
\* applied to the stored task.
C5_UpdateAllOrNothing ==
  [][(/\ request'.op = "update_task"
      /\ Cardinality({f \in UpdateFields : request'.body[f] # Unset}) >= 2
      /\ InvalidField(request'.body))
     => (response'.status # 200 /\ tasks' = tasks)]_vars

\* C3: a create or an update whose cognitive_load is an integer outside
\* 1..10 fails with a validation error and leaves every stored task as it
\* was; so every stored cognitive_load that is set lies in 1..10.
C3_LoadOutsideRangeRejected ==
  [][/\ (/\ request'.op \in {"create_task", "update_task"}
         /\ request'.body.cognitive_load # Unset
         /\ request'.body.cognitive_load[1] # None
         /\ request'.body.cognitive_load[1][1] \notin 1 .. 10)
        => (response'.status = 422 /\ tasks' = tasks)
     /\ \A t \in tasks' :
          t.cognitive_load # None => t.cognitive_load[1] \in 1 .. 10]_vars

\* C3 happens: an update with cognitive_load 11 has been refused on a
\* stored task whose load, 10, is the largest the range allows.
C3_Witness ==
  /\ request.op = "update_task"
  /\ request.body.cognitive_load = Given(Some(11))
  /\ response.status = 422
  /\ \E t \in Named(tasks, request) : t.cognitive_load = Some(10)

\* C4: a successful update of task T sets exactly the fields its body
\* carries: a field the body does not carry keeps its stored value, T's id
\* and created_at stay, and no other task changes.
C4_UpdateIsMergePatch ==
  [][(request'.op = "update_task" /\ response'.status = 200)
     => \E old \in Named(tasks, request') :
          \E new \in Named(tasks', request') :
            LET body == request'.body
            IN /\ tasks' \ {new} = tasks \ {old}
               /\ new.id = old.id
               /\ new.created_at = old.created_at
               /\ new.title = IF body.title = Unset THEN old.title
                              ELSE body.title[1][1]
               /\ new.description = IF body.description = Unset
                                      THEN old.description
                                      ELSE body.description[1]
               /\ IF body.state = Unset THEN new.state = old.state
                  ELSE StateValue(new.state) = body.state[1]
               /\ new.cognitive_load = IF body.cognitive_load = Unset
                                         THEN old.cognitive_load
                                         ELSE body.cognitive_load[1]
               /\ new.estimated_minutes = IF body.estimated_minutes = Unset
                                            THEN old.estimated_minutes
                                            ELSE body.estimated_minutes[1]]_vars

\* C4 happens: an update that carried only a title has succeeded on a task
\* that keeps the description, load and estimate earlier updates gave it,
\* later than the task was created, with another task stored beside it.
C4_Witness ==
  /\ request.op = "update_task"
  /\ request.body = Body(TitleC, Unset, Unset, Unset, Unset)
  /\ response.status = 200
  /\ Cardinality(tasks) >= 2
  /\ \E t \in Named(tasks, request) :
       /\ t.title = "C"
       /\ t.description = Some("B")
       /\ t.cognitive_load = Some(3)
       /\ t.estimated_minutes = Some(30)
       /\ t.created_at < t.updated_at

\* C6 as first stated: a get or an update whose identifier matches no stored
\* task fails with 404, never with a validation failure and never with a
\* success, and modifies no task; for update, whatever the body.
C6_UnknownIdAlways404 ==
  [][(/\ request'.op \in {"get_task", "update_task"}
      /\ response'.raised # "OperationalError"
      /\ Named(tasks, request') = {})
     => (response'.status = 404 /\ tasks' = tasks)]_vars

\* A body the update schema refuses, in the interface's words: a state that
\* is a non-empty string other than the six values, or a cognitive_load
\* outside 1..10.
RefusedBody(body) ==
  \/ /\ body.state # Unset
     /\ body.state[1] # None
     /\ body.state[1][1] # ""
     /\ body.state[1][1] \notin SixStates
  \/ /\ body.cognitive_load # Unset
     /\ body.cognitive_load[1] # None
     /\ body.cognitive_load[1][1] \notin 1 .. 10

\* C6: with the store reachable, a get, or an update whose body passes
\* validation, that names no stored task fails with 404; an update whose
\* body fails validation fails with 422 whether or not its identifier is
\* known; in both cases no stored task is modified.
C6_UnknownIdIs404AfterValidation ==
  [][/\ (/\ request'.op \in {"get_task", "update_task"}
         /\ response'.raised # "OperationalError"
         /\ Named(tasks, request') = {})
        => /\ tasks' = tasks
           /\ response'.status =
                IF request'.op = "update_task" /\ RefusedBody(request'.body)
                  THEN 422 ELSE 404
     /\ (request'.op = "update_task" /\ RefusedBody(request'.body))
        => (response'.status = 422 /\ tasks' = tasks)]_vars

\* C6 happens: an update with a valid title has named an identifier that no
\* stored task has, while another task is stored, and got 404.
C6_Witness ==
  /\ request.op = "update_task"
  /\ request.body = Body(TitleC, Unset, Unset, Unset, Unset)
  /\ Named(tasks, request) = {}
  /\ tasks # {}
  /\ response.status = 404

\* What quick capture of a text is to leave behind: one more task, under an
\* identifier no task had, titled with the text, in the inbox, load 5,
\* nothing else set, and every task that was there untouched.
Captured(text) ==
  /\ response'.status = 200
  /\ \E new \in tasks' :
       /\ new.id \notin {t.id : t \in tasks}
       /\ tasks' = tasks \cup {new}
       /\ Cardinality(tasks') = Cardinality(tasks) + 1
       /\ new.title = text
       /\ StateValue(new.state) = Some("inbox")
       /\ new.cognitive_load = Some(5)
       /\ new.description = None
       /\ new.estimated_minutes = None

\* C7 as first stated: for every text, quick capture succeeds whenever the
\* store is available and adds exactly that one task.
C7_CaptureOfAnyText ==
  [][(HandlerStep /\ request'.op = "quick_capture" /\ store_up)
     => Captured(request'.text)]_vars

\* C7: for every text of at most 255 characters, quick capture succeeds
\* whenever the store is available and adds exactly one new task with a
\* fresh identifier, title = text, state inbox, cognitive_load 5, description
\* and estimated_minutes unset; no existing task is changed.
C7_CaptureOfTextThatFits ==
  [][(/\ HandlerStep
      /\ request'.op = "quick_capture"
      /\ store_up
      /\ Len(request'.text) <= 255)
     => Captured(request'.text)]_vars

\* C7 happens: a text of exactly 255 characters has been captured beside a
\* task that was already stored.
C7_Witness ==
  /\ request.op = "quick_capture"
  /\ Len(request.text) = 255
  /\ response.status = 200
  /\ Cardinality(tasks) >= 2
  /\ \E t \in tasks : t.title = request.text

C9_CreateNeedsNonEmptyTitle ==
  [][(/\ request'.op = "create_task"
      /\ \/ request'.body.title = Unset
         \/ request'.body.title[1] = None
         \/ request'.body.title[1][1] = "")
     => (response'.status = 422 /\ tasks' = tasks)]_vars

\* C10: for skip >= 0 and limit <= 500, list returns the tasks at positions
\* skip .. skip+limit-1 of the stored tasks sorted by created_at, newest
\* first, in that order; a limit above 500 is rejected, so no list call
\* returns more than 500 rows.
C10_ListIsPageOfNewestFirst ==
  (request.op = "list_tasks" /\ StoreWasUp)
  => IF request.limit > 500
       THEN response.status = 422
       ELSE /\ response.status = 200
            /\ Len(response.body) <= 500
            /\ \E s \in NewestFirst :
                 response.body = Page(s, request.skip, request.limit)


\* C11: every update answered with success, whatever its body (an empty body
\* and one that gives the stored values again included), leaves the named
\* task's updated_at at the time of the update; no step makes a task's
\* updated_at smaller or changes its created_at; a get or a list changes
\* nothing of a task.
C11_UpdateRefreshesUpdatedAt ==
  [][/\ (HandlerStep /\ request'.op = "update_task" /\ response'.status = 200)
          => \A t \in Named(tasks', request') : t.updated_at = now'
     /\ \A old \in tasks :
          \E new \in tasks' :
            /\ new.id = old.id
            /\ new.created_at = old.created_at
            /\ new.updated_at >= old.updated_at
     /\ (HandlerStep /\ request'.op \in {"get_task", "list_tasks"})
          => tasks' = tasks]_vars


\* The request of thread r holds a session: get_db has yielded one to it
\* and the request is not over.
Serving(r) == workers[r].pc \in {"handler", "commit", "refresh", "finally"}

\* C12: a request that got a session from get_db closes that session exactly
\* once by the time it is over, whichever way it left its handler (return,
\* 404, 422, a store error at the query, the commit or the refresh): no
\* session is closed twice, none is open unless its request is being
\* served, and the session of a request that is over has been closed once.
C12_SessionClosedOnce ==
  \A r \in Requests :
    /\ sessions[r] # None => sessions[r][1].closes <= 1
    /\ (sessions[r] # None /\ sessions[r][1].closes = 0) => Serving(r)
    /\ Serving(r) => sessions[r] # None /\ sessions[r][1].closes = 0
    /\ workers[r].pc = "done" => sessions[r] # None /\ sessions[r][1].closes = 1

\* C12 happens: two requests are over, one that returned its task and one
\* that a store error ended, and each has closed its session once.
C12_Witness ==
  \E r, q \in Requests :
    /\ workers[r].pc = "done" /\ workers[r].status = 200
    /\ workers[q].pc = "done" /\ workers[q].raised = "OperationalError"
    /\ sessions[r][1].closes = 1
    /\ sessions[q][1].closes = 1


\* The commit of request q's update is behind it (SpecThreads: the store is
\* reachable, so a request past its commit ends with 200).
Committed(q) ==
  /\ workers[q].op = "update_task"
  /\ \/ workers[q].pc = "refresh"
     \/ workers[q].pc \in {"finally", "done"} /\ workers[q].status = 200

\* Every field both bodies carry has in row t the value of body mine.
HasMine(t, mine, other) ==
  /\ (mine.title # Unset /\ other.title # Unset)
       => Some(t.title) = mine.title[1]
  /\ (mine.description # Unset /\ other.description # Unset)
       => t.description = mine.description[1]
  /\ (mine.state # Unset /\ other.state # Unset)
       => StateValue(t.state) = mine.state[1]
  /\ (mine.cognitive_load # Unset /\ other.cognitive_load # Unset)
       => t.cognitive_load = mine.cognitive_load[1]
  /\ (mine.estimated_minutes # Unset /\ other.estimated_minutes # Unset)
       => t.estimated_minutes = mine.estimated_minutes[1]

\* C13: when two updates of one task interleave, both succeed (no version
\* check, no lock), and once the second of them has committed, every field
\* that both bodies carry has in the stored row the value of the request
\* that committed last.
C13_LastWriterWins ==
  [][\A r \in Requests :
       /\ (workers[r].pc = "commit" /\ workers'[r].pc # "commit")
            => /\ workers'[r].pc = "refresh"
               /\ \A q \in Requests \ {r} :
                    (Committed(q) /\ workers[q].task_id = workers[r].task_id)
                      => \A t \in {u \in tasks' : u.id = workers[r].task_id} :
                           HasMine(t, workers[r].body, workers[q].body)
       /\ (workers[r].pc = "refresh" /\ workers'[r].pc # "refresh")
            => workers'[r].status = 200]_vars

\* C14: the lazily initialised globals are singletons: whatever the
\* interleaving of the requests, at most one engine and at most one session
\* factory are ever made, and all sessions come from that one factory.
C14_GlobalsAreSingletons ==
  /\ made.engines <= 1
  /\ made.factories <= 1
  /\ \A r, q \in Requests :
       (sessions[r] # None /\ sessions[q] # None)
         => sessions[r][1].factory = sessions[q][1].factory

====
